---- MODULE Spec2Model ----
(***************************************************************************)
(* Model of the stock dashboard: the forecasting routine                   *)
(* (utils/prediction.py), the indicator calculator                         *)
(* (utils/stock_analysis.py) and the fetch/cache layer of app.py.          *)
(*                                                                         *)
(* Arithmetic is exact: a real number is a pair <<n, d>> with d > 0        *)
(* standing for n/d.  Feature values are held in twentieths of a price     *)
(* unit, so that the 5-day and the 20-day mean of integer prices are       *)
(* integers.                                                               *)
(***************************************************************************)
EXTENDS Integers, Sequences, FiniteSets, TLC

VARIABLES
    \* ---- predict_stock_price(data) ----
    data,            \* the argument: [isNone, close, lastDate]
    fault,           \* where the regressor library raises: none / fit / predict
    pc,              \* position inside predict_stock_price
    X,               \* training windows returned by prepare_data
    y,               \* training targets returned by prepare_data
    scaler,          \* fitted MinMaxScaler: per-column minimum and range
    last_sequence,   \* the current rollout window
    scaled_pred,     \* the latest scaled prediction
    current_date,    \* the rollout's calendar date (proleptic ordinal)
    future_dates,    \* dates recorded so far
    predictions,     \* prices recorded so far (twentieths, as <<n, d>>)
    exc,             \* the exception in flight, if any
    result,          \* the returned frame: [dates, prices]
    escaped,         \* TRUE when an exception left predict_stock_price
    \* ---- calculate_technical_indicators(data) ----
    closes,          \* the Close column of the argument
    ipc,             \* position inside calculate_technical_indicators
    rsi,             \* the returned 'RSI' value
    \* ---- app.py: main(), cached_fetch_stock_data, fetch_stock_data_with_retries ----
    cache,           \* the lru_cache: entries [key, hist], least recently used first
    apc,             \* position of the running request: idle / fetching
    nreq,            \* Analyze requests started so far
    reqKey,          \* (ticker, period) of the current request
    attempts,        \* fetch attempts made by the current call
    sleeps,          \* the waits of the current call, in order
    fails,           \* the failures of the current call, in order
    raised,          \* the exception the current call raised
    hist,            \* the Price History the current request works on
    served,          \* how the current request got it: pending / cache / fetch / failed
    shown            \* what the page shows for the request

predVars == <<data, fault, pc, X, y, scaler, last_sequence, scaled_pred,
              current_date, future_dates, predictions, exc, result, escaped>>

rsiVars == <<closes, ipc, rsi>>

appVars == <<cache, apc, nreq, reqKey, attempts, sleeps, fails, raised, hist, served, shown>>

vars == <<predVars, rsiVars, appVars>>

-----------------------------------------------------------------------------
\* Program constants
Lookback == 30
Horizon == 7
MA5Window == 5
MA20Window == 20

\* The unit of a feature value: 1/20 of a price unit, which both windows divide.
Twentieths == MA20Window

\* The null / not-a-number marker of a Close cell (prices are non-negative).
NaN == -1

\* Bounds of the model
MaxRows == 32
MaxRsiRows == 16
MaxRequests == 3

-----------------------------------------------------------------------------
\* Helpers on sequences and exact reals

RECURSIVE SumRange(_, _, _)
SumRange(s, a, b) == IF a > b THEN 0 ELSE s[a] + SumRange(s, a + 1, b)

Last(s) == s[Len(s)]

RLe(a, b) == a[1] * b[2] <= b[1] * a[2]

-----------------------------------------------------------------------------
\* Exceptions

ValueError(text, args) == [kind |-> "ValueError", prefix |-> "", text |-> text, args |-> args]

LibraryError == [kind |-> "LibraryError", prefix |-> "", text |-> "regressor failure", args |-> <<>>]

NoException == [kind |-> "none", prefix |-> "", text |-> "", args |-> <<>>]

InsufficientNoLength(lookback) == ValueError("Insufficient data.", <<>>)

\* raise ValueError(f"Insufficient data. Need at least {lookback} days of historical data.")
InsufficientData(lookback) ==
    ValueError("Insufficient data. Need at least {} days of historical data.", <<lookback>>)

\* raise ValueError("Unable to handle missing values in the dataset")
MissingValues == ValueError("Unable to handle missing values in the dataset", <<>>)

\* except Exception as e: raise ValueError(f"Error preparing data: {str(e)}")
WrapPrepareError(e) ==
    [kind |-> "ValueError", prefix |-> "Error preparing data: ", text |-> e.text, args |-> e.args]

-----------------------------------------------------------------------------
\* prepare_data

\* features['Close'].rolling(window=w).mean(), in twentieths: null until w
\* observations exist and whenever the window holds a null.
RollingCell(close, w, i) ==
    IF i < w \/ \E j \in (i - w + 1)..i : close[j] = NaN
    THEN NaN
    ELSE SumRange(close, i - w + 1, i) * (Twentieths \div w)

RECURSIVE RollingFrom(_, _, _, _)
RollingFrom(close, w, i, acc) ==
    IF i > Len(close) THEN acc
    ELSE RollingFrom(close, w, i + 1, Append(acc, RollingCell(close, w, i)))

RollingMean(close, w) == RollingFrom(close, w, 1, <<>>)

RECURSIVE CloseFrom(_, _, _)
CloseFrom(close, i, acc) ==
    IF i > Len(close) THEN acc
    ELSE CloseFrom(close, i + 1,
                   Append(acc, IF close[i] = NaN THEN NaN ELSE close[i] * Twentieths))

\* features['Close'] = data['Close'], in twentieths
CloseColumn(close) == CloseFrom(close, 1, <<>>)

RECURSIVE FfillFrom(_, _, _, _)
FfillFrom(s, i, prev, acc) ==
    IF i > Len(s) THEN acc
    ELSE LET v == IF s[i] # NaN THEN s[i] ELSE prev
         IN FfillFrom(s, i + 1, v, Append(acc, v))

\* DataFrame.ffill(): a null takes the last value before it, if there is one
Ffill(s) == FfillFrom(s, 1, NaN, <<>>)

RECURSIVE BfillFrom(_, _, _, _)
BfillFrom(s, i, next, acc) ==
    IF i < 1 THEN acc
    ELSE LET v == IF s[i] # NaN THEN s[i] ELSE next
         IN BfillFrom(s, i - 1, v, <<v>> \o acc)

\* DataFrame.bfill(): a null takes the first value after it, if there is one
Bfill(s) == BfillFrom(s, Len(s), NaN, <<>>)

\* features = features.ffill().bfill(), column by column
Features(close) ==
    <<Bfill(Ffill(CloseColumn(close))),
      Bfill(Ffill(RollingMean(close, MA5Window))),
      Bfill(Ffill(RollingMean(close, MA20Window)))>>

\* features.isnull().any().any()
HasNull(cols) == \E c \in 1..3 : \E i \in 1..Len(cols[c]) : cols[c][i] = NaN

RECURSIVE SeqMin(_, _, _)
SeqMin(s, i, m) == IF i > Len(s) THEN m ELSE SeqMin(s, i + 1, IF s[i] < m THEN s[i] ELSE m)

RECURSIVE SeqMax(_, _, _)
SeqMax(s, i, m) == IF i > Len(s) THEN m ELSE SeqMax(s, i + 1, IF s[i] > m THEN s[i] ELSE m)

FitColumn(col) ==
    LET lo == SeqMin(col, 1, col[1])
        hi == SeqMax(col, 1, col[1])
    IN [min |-> lo, range |-> IF hi = lo THEN 1 ELSE hi - lo]

\* MinMaxScaler().fit: per column the minimum and the range; a zero range is
\* replaced by 1 so that a constant column scales to 0.
FitScaler(cols) == <<FitColumn(cols[1]), FitColumn(cols[2]), FitColumn(cols[3])>>

ScaledRow(cols, sc, i) ==
    <<<<cols[1][i] - sc[1].min, sc[1].range>>,
      <<cols[2][i] - sc[2].min, sc[2].range>>,
      <<cols[3][i] - sc[3].min, sc[3].range>>>>

RECURSIVE ScaledFrom(_, _, _, _)
ScaledFrom(cols, sc, i, acc) ==
    IF i > Len(cols[1]) THEN acc
    ELSE ScaledFrom(cols, sc, i + 1, Append(acc, ScaledRow(cols, sc, i)))

\* scaler.transform: the rows of the scaled matrix
ScaledRows(cols, sc) == ScaledFrom(cols, sc, 1, <<>>)

RECURSIVE WindowsFrom(_, _, _, _)
WindowsFrom(scaled, lookback, i, acc) ==
    IF i > Len(scaled) THEN acc
    ELSE WindowsFrom(scaled, lookback, i + 1,
                     Append(acc, SubSeq(scaled, i - lookback, i - 1)))

RECURSIVE TargetsFrom(_, _, _, _)
TargetsFrom(scaled, lookback, i, acc) ==
    IF i > Len(scaled) THEN acc
    ELSE TargetsFrom(scaled, lookback, i + 1, Append(acc, scaled[i][1]))

RECURSIVE WindowsIncludingTarget(_, _, _, _)
WindowsIncludingTarget(scaled, lookback, i, acc) ==
    IF i > Len(scaled) THEN acc
    ELSE WindowsIncludingTarget(scaled, lookback, i + 1,
                                Append(acc, SubSeq(scaled, i - lookback + 1, i)))

WindowsOffByOne(scaled, lookback) == WindowsIncludingTarget(scaled, lookback, lookback + 1, <<>>)

\* for i in range(lookback, len(scaled_data)): X.append(scaled_data[i-lookback:i])
\* (i is the 1-based index of the target row, lookback + 1 .. len)
Windows(scaled, lookback) == WindowsFrom(scaled, lookback, lookback + 1, <<>>)

\* y.append(scaled_data[i, 0])
Targets(scaled, lookback) == TargetsFrom(scaled, lookback, lookback + 1, <<>>)

PrepareData(d, lookback) ==
    IF d.isNone \/ Len(d.close) < lookback
    THEN [ok |-> FALSE, exc |-> WrapPrepareError(InsufficientData(lookback))]
    ELSE LET cols == Features(d.close) IN
         IF HasNull(cols)
         THEN [ok |-> FALSE, exc |-> WrapPrepareError(MissingValues)]
         ELSE LET sc == FitScaler(cols)
                  scaled == ScaledRows(cols, sc)
              IN [ok |-> TRUE,
                  X |-> Windows(scaled, lookback),
                  y |-> Targets(scaled, lookback),
                  scaler |-> sc,
                  columns |-> <<"Close", "MA5", "MA20">>]

-----------------------------------------------------------------------------
\* predict_stock_price

\* datetime.weekday() of a proleptic ordinal: Monday is 0, ordinal 1 is a Monday.
Weekday(d) == (d + 6) % 7

SkipsOnlySunday(d) == Weekday(d) > 5

\* while current_date.weekday() > 4
IsWeekend(d) == Weekday(d) > 4

RECURSIVE SkipWeekend(_)
SkipWeekend(d) == IF IsWeekend(d) THEN SkipWeekend(d + 1) ELSE d

\* current_date += timedelta(days=1); while weekend: current_date += timedelta(days=1)
AdvanceDate(d) == SkipWeekend(d + 1)

\* RandomForestRegressor.predict: the mean over trees of leaf means of training
\* targets, hence a value in the convex hull of y; the choice inside the hull is
\* left open and drawn from its two ends and its midpoint.
ModelPredict(targets, window) ==
    LET den == targets[1][2]
        ns == [k \in 1..Len(targets) |-> targets[k][1]]
        lo == SeqMin(ns, 1, ns[1])
        hi == SeqMax(ns, 1, ns[1])
    IN IF lo = hi THEN {<<lo, den>>}
       ELSE {<<lo, den>>, <<hi, den>>, <<lo + hi, 2 * den>>}

InverseFromMax(sc, p) == <<p[1] * sc[1].range + (sc[1].min + sc[1].range) * p[2], p[2]>>

\* scaler.inverse_transform(orig_shape_pred)[0, 0] with orig_shape_pred[0, 0] = scaled_pred
InverseClose(sc, p) == <<p[1] * sc[1].range + sc[1].min * p[2], p[2]>>

RollForward(seq) == <<Last(seq)>> \o SubSeq(seq, 1, Len(seq) - 1)

\* np.roll(last_sequence, -1, axis=0): a new array, the first row moved to the end
Roll(seq) == Tail(seq) \o <<Head(seq)>>

\* last_sequence[-1] = scaled_pred: the scalar is broadcast over the row
SetLastRow(seq, p) == [seq EXCEPT ![Len(seq)] = [c \in 1..3 |-> p]]

CatchesValueErrorOnly(e) == e.kind = "ValueError"

\* except Exception as e: every exception class modelled derives from Exception
Catches(e) == e.kind \in {"ValueError", "LibraryError"}

EmptyFrame == [dates |-> <<>>, prices |-> <<>>]

\* Inputs: the shape of the Close series, row by row
Shapes == {"flat", "rising", "falling", "zigzag", "allnull", "leadnull", "gap"}

CloseAt(shape, i) ==
    CASE shape = "flat" -> 50
      [] shape = "rising" -> 99 + i
      [] shape = "falling" -> 200 - i
      [] shape = "zigzag" -> 50 + ((i * i) % 3)
      [] shape = "allnull" -> NaN
      [] shape = "leadnull" -> IF i <= 2 THEN NaN ELSE 99 + i
      [] shape = "gap" -> IF i = 16 THEN NaN ELSE 99 + i

RowCounts == {0, 1} \cup ((Lookback - 1)..MaxRows)

LastDates == 1..7

Faults == {"none", "fit", "predict"}

\* Histories: every shape ending on a Friday, and the rising shape ending on
\* each day of the week.
Inputs ==
    {[isNone |-> TRUE, close |-> <<>>, lastDate |-> 1]}
    \cup {[isNone |-> FALSE, close |-> [i \in 1..n |-> CloseAt(s, i)], lastDate |-> dt] :
            n \in RowCounts, s \in Shapes, dt \in {5}}
    \cup {[isNone |-> FALSE, close |-> [i \in 1..n |-> CloseAt("rising", i)], lastDate |-> dt] :
            n \in RowCounts, dt \in LastDates}

PredInit ==
    /\ data \in Inputs
    /\ fault \in Faults
    /\ pc = "start"
    /\ X = <<>>
    /\ y = <<>>
    /\ scaler = <<>>
    /\ last_sequence = <<>>
    /\ scaled_pred = <<0, 1>>
    /\ current_date = 0
    /\ future_dates = <<>>
    /\ predictions = <<>>
    /\ exc = NoException
    /\ result = EmptyFrame
    /\ escaped = FALSE

\* Lines 45-63: prepare the data, fit the model, set up the rollout.
PrepareAndFit ==
    /\ UNCHANGED <<rsiVars, appVars>>
    /\ pc = "start"
    /\ LET prep == PrepareData(data, Lookback) IN
       IF ~prep.ok
       THEN /\ exc' = prep.exc
            /\ pc' = "except"
            /\ UNCHANGED <<X, y, scaler, last_sequence, current_date>>
       ELSE /\ X' = prep.X
            /\ y' = prep.y
            /\ scaler' = prep.scaler
            /\ IF Len(prep.X) = 0
               THEN /\ exc' = ValueError("No valid data available for prediction", <<>>)
                    /\ pc' = "except"
                    /\ UNCHANGED <<last_sequence, current_date>>
               ELSE IF fault = "fit"
               THEN /\ exc' = LibraryError
                    /\ pc' = "except"
                    /\ UNCHANGED <<last_sequence, current_date>>
               ELSE /\ last_sequence' = Last(prep.X)
                    /\ current_date' = data.lastDate
                    /\ pc' = "rollout"
                    /\ UNCHANGED exc
    /\ UNCHANGED <<data, fault, scaled_pred, future_dates, predictions, result, escaped>>

\* Lines 65-84: one iteration of the rollout.
RolloutStep ==
    /\ UNCHANGED <<rsiVars, appVars>>
    /\ pc = "rollout"
    /\ Len(predictions) < Horizon
    /\ \E p \in ModelPredict(y, last_sequence) :
        /\ current_date' = AdvanceDate(current_date)
        /\ future_dates' = Append(future_dates, current_date')
        /\ scaled_pred' = p
        /\ predictions' = Append(predictions, InverseClose(scaler, p))
        /\ last_sequence' = SetLastRow(Roll(last_sequence), p)
    /\ UNCHANGED <<data, fault, pc, X, y, scaler, exc, result, escaped>>

\* Line 73: model.predict raises inside an iteration.
RolloutFault ==
    /\ UNCHANGED <<rsiVars, appVars>>
    /\ pc = "rollout"
    /\ Len(predictions) < Horizon
    /\ fault = "predict"
    /\ exc' = LibraryError
    /\ pc' = "except"
    /\ UNCHANGED <<data, fault, X, y, scaler, last_sequence, scaled_pred, current_date,
                   future_dates, predictions, result, escaped>>

\* Lines 86-93: build and return the prediction frame.
ReturnFrame ==
    /\ UNCHANGED <<rsiVars, appVars>>
    /\ pc = "rollout"
    /\ Len(predictions) = Horizon
    /\ result' = [dates |-> future_dates, prices |-> predictions]
    /\ pc' = "done"
    /\ UNCHANGED <<data, fault, X, y, scaler, last_sequence, scaled_pred, current_date,
                   future_dates, predictions, exc, escaped>>

\* Lines 95-97: the handler returns an empty frame.
Except ==
    /\ UNCHANGED <<rsiVars, appVars>>
    /\ pc = "except"
    /\ IF Catches(exc)
       THEN result' = EmptyFrame /\ escaped' = FALSE
       ELSE result' = EmptyFrame /\ escaped' = TRUE
    /\ pc' = "done"
    /\ UNCHANGED <<data, fault, X, y, scaler, last_sequence, scaled_pred, current_date,
                   future_dates, predictions, exc>>

PredNext == PrepareAndFit \/ RolloutStep \/ RolloutFault \/ ReturnFrame \/ Except

\* The parts of the state a specification does not exercise stay at rest.
PredIdle ==
    /\ data = [isNone |-> TRUE, close |-> <<>>, lastDate |-> 1]
    /\ fault = "none"
    /\ pc = "idle"
    /\ X = <<>>
    /\ y = <<>>
    /\ scaler = <<>>
    /\ last_sequence = <<>>
    /\ scaled_pred = <<0, 1>>
    /\ current_date = 0
    /\ future_dates = <<>>
    /\ predictions = <<>>
    /\ exc = NoException
    /\ result = EmptyFrame
    /\ escaped = FALSE

-----------------------------------------------------------------------------
\* calculate_technical_indicators: the RSI it returns.  A float is
\* [k |-> "fin", n, d] (the real n/d, d > 0), [k |-> "inf"] or [k |-> "nan"].

RsiWindow == 14

Fin(n, d) == [k |-> "fin", n |-> n, d |-> d]
Inf == [k |-> "inf", n |-> 1, d |-> 1]
NotANumber == [k |-> "nan", n |-> 0, d |-> 1]

\* delta = data['Close'].diff(): the first entry is null
Delta(c, i) == IF i = 1 THEN NaN ELSE c[i] - c[i - 1]

\* delta.where(delta > 0, 0): a null compares False and becomes 0
Gain(c, i) == IF i > 1 /\ Delta(c, i) > 0 THEN Delta(c, i) ELSE 0

\* -delta.where(delta < 0, 0)
Loss(c, i) == IF i > 1 /\ Delta(c, i) < 0 THEN 0 - Delta(c, i) ELSE 0

RECURSIVE SumGain(_, _, _)
SumGain(c, a, b) == IF a > b THEN 0 ELSE Gain(c, a) + SumGain(c, a + 1, b)

RECURSIVE SumLoss(_, _, _)
SumLoss(c, a, b) == IF a > b THEN 0 ELSE Loss(c, a) + SumLoss(c, a + 1, b)

\* .rolling(window=14).mean() at the last row: null before 14 rows exist
AvgGain(c) ==
    IF Len(c) < RsiWindow THEN NotANumber
    ELSE Fin(SumGain(c, Len(c) - RsiWindow + 1, Len(c)), RsiWindow)

AvgLoss(c) ==
    IF Len(c) < RsiWindow THEN NotANumber
    ELSE Fin(SumLoss(c, Len(c) - RsiWindow + 1, Len(c)), RsiWindow)

\* IEEE division of non-negative operands, as numpy performs gain / loss:
\* x/0 is inf for x > 0 and nan for x = 0
FDiv(a, b) ==
    IF a.k = "nan" \/ b.k = "nan" THEN NotANumber
    ELSE IF a.k = "inf" THEN (IF b.k = "inf" THEN NotANumber ELSE Inf)
    ELSE IF b.k = "inf" THEN Fin(0, 1)
    ELSE IF b.n = 0 THEN (IF a.n = 0 THEN NotANumber ELSE Inf)
    ELSE Fin(a.n * b.d, a.d * b.n)

\* 1 + rs
FAddOne(a) == IF a.k = "fin" THEN Fin(a.d + a.n, a.d) ELSE a

\* 100 - x
FFromHundred(a) == IF a.k = "fin" THEN Fin(100 * a.d - a.n, a.d) ELSE a

\* rs = gain / loss; rsi = 100 - (100 / (1 + rs)); 'RSI': rsi.iloc[-1]
RSI(c) ==
    LET rs == FDiv(AvgGain(c), AvgLoss(c))
    IN FFromHundred(FDiv(Fin(100, 1), FAddOne(rs)))

RsiRowCounts == {1, RsiWindow - 1} \cup (RsiWindow..MaxRsiRows)

\* Inputs: a line of slope s with a step of height j after row l
RsiInputs ==
    {[i \in 1..n |-> 50 + s * i + (IF i > l THEN j ELSE 0)] :
        n \in RsiRowCounts, s \in {-1, 0, 1}, l \in 1..MaxRsiRows, j \in {-3, 0, 3}}

RsiInit ==
    /\ closes \in RsiInputs
    /\ ipc = "start"
    /\ rsi = NotANumber

RsiIdle ==
    /\ closes = <<>>
    /\ ipc = "idle"
    /\ rsi = NotANumber

\* Lines 8-12 and 21: the RSI of the latest row.
CalculateIndicators ==
    /\ ipc = "start"
    /\ rsi' = RSI(closes)
    /\ ipc' = "done"
    /\ UNCHANGED <<closes, predVars, appVars>>

-----------------------------------------------------------------------------
\* app.py: the Analyze request, the cache and the retrying fetch

Retries == 3
BackoffFactor == 2
CacheMaxSize == 128

Tickers == {"RELIANCE.NS", "TCS.NS"}
Periods == {"1mo", "3mo", "6mo", "1y", "2y", "5y"}
Keys == Tickers \X Periods

NoKey == <<"", "">>
NoHist == [key |-> NoKey, empty |-> TRUE, fetchedBy |-> 0]

\* What one call of stock.history(period=period) gives: rows, no rows, or an
\* exception of the transport.
Outcomes == {"data", "empty", "error"}

\* if hist.empty: raise ValueError("No data found or request was rate-limited.")
EmptyHistoryError == [kind |-> "ValueError", text |-> "No data found or request was rate-limited."]
TransportError == [kind |-> "ConnectionError", text |-> "request failed"]
NoFailure == [kind |-> "none", text |-> ""]

\* Lines 31-39: the attempt fails when history() raises or returns no rows.
AttemptFails(outcome) == outcome \in {"empty", "error"}

FailureOf(outcome) == IF outcome = "empty" THEN EmptyHistoryError ELSE TransportError

WaitLinear(backoff, attempt) == backoff * attempt

\* wait_time = backoff_factor ** attempt
WaitTime(backoff, attempt) == backoff ^ attempt

\* if attempt < retries - 1
ShouldRetry(attempt, retries) == attempt < retries - 1

CacheNeverHits(c, k) == FALSE

\* lru_cache lookup by the call's arguments
CacheHit(c, k) == \E i \in 1..Len(c) : c[i].key = k

CacheGet(c, k) == c[CHOOSE i \in 1..Len(c) : c[i].key = k].hist

RECURSIVE Without(_, _)
Without(c, k) ==
    IF c = <<>> THEN <<>>
    ELSE IF Head(c).key = k THEN Without(Tail(c), k)
    ELSE <<Head(c)>> \o Without(Tail(c), k)

\* a hit makes the entry the most recently used
CacheTouch(c, k) == Without(c, k) \o <<[key |-> k, hist |-> CacheGet(c, k)]>>

\* a miss stores the result and, at maxsize, drops the least recently used entry
CachePut(c, k, h) ==
    (IF Len(c) >= CacheMaxSize THEN Tail(c) ELSE c) \o <<[key |-> k, hist |-> h]>>

AppInit ==
    /\ cache = <<>>
    /\ apc = "idle"
    /\ nreq = 0
    /\ reqKey = NoKey
    /\ attempts = 0
    /\ sleeps = <<>>
    /\ fails = <<>>
    /\ raised = NoFailure
    /\ hist = NoHist
    /\ served = "none"
    /\ shown = "nothing"

AppIdle == AppInit

\* Lines 87-91 and 47-52: the Analyze button calls cached_fetch_stock_data;
\* a cached key returns at once, another one enters the retry loop.
Analyze ==
    /\ apc = "idle"
    /\ nreq < MaxRequests
    /\ \E k \in Keys :
        /\ reqKey' = k
        /\ nreq' = nreq + 1
        /\ attempts' = 0
        /\ sleeps' = <<>>
        /\ fails' = <<>>
        /\ raised' = NoFailure
        /\ IF CacheHit(cache, k)
           THEN /\ hist' = CacheGet(cache, k)
                /\ cache' = CacheTouch(cache, k)
                /\ served' = "cache"
                /\ shown' = "analysis"
                /\ apc' = "idle"
           ELSE /\ hist' = NoHist
                /\ cache' = cache
                /\ served' = "pending"
                /\ shown' = "spinner"
                /\ apc' = "fetching"
    /\ UNCHANGED <<predVars, rsiVars>>

\* Lines 28-44: one iteration of the retry loop.
FetchAttempt ==
    /\ apc = "fetching"
    /\ \E outcome \in Outcomes :
        /\ attempts' = attempts + 1
        /\ IF ~AttemptFails(outcome)
           THEN \* return hist; lru_cache stores it; main() goes on to the analysis
                /\ hist' = [key |-> reqKey, empty |-> outcome = "empty", fetchedBy |-> nreq]
                /\ cache' = CachePut(cache, reqKey, hist')
                /\ served' = "fetch"
                /\ shown' = IF hist'.empty THEN "no data message" ELSE "analysis"
                /\ apc' = "idle"
                /\ UNCHANGED <<sleeps, fails, raised>>
           ELSE IF ShouldRetry(attempts, Retries)
           THEN \* time.sleep(wait_time), next iteration
                /\ fails' = Append(fails, FailureOf(outcome))
                /\ sleeps' = Append(sleeps, WaitTime(BackoffFactor, attempts))
                /\ UNCHANGED <<hist, cache, served, shown, apc, raised>>
           ELSE \* raise e; nothing is cached; main() reports the failure
                /\ fails' = Append(fails, FailureOf(outcome))
                /\ raised' = FailureOf(outcome)
                /\ served' = "failed"
                /\ shown' = IF FailureOf(outcome).kind = "ValueError"
                             THEN "rate limit message" ELSE "unexpected error message"
                /\ apc' = "idle"
                /\ UNCHANGED <<hist, cache, sleeps>>
    /\ UNCHANGED <<nreq, reqKey, predVars, rsiVars>>

\* The module is executed again (lines 47-52 run anew): the decorator builds a
\* new, empty cache.  With an empty cache the step changes nothing.
ModuleLoad ==
    /\ apc = "idle"
    /\ cache # <<>>
    /\ cache' = <<>>
    /\ UNCHANGED <<apc, nreq, reqKey, attempts, sleeps, fails, raised, hist, served, shown,
                   predVars, rsiVars>>

AppNext == Analyze \/ FetchAttempt \/ ModuleLoad

-----------------------------------------------------------------------------
\* Specifications

InitPredict == PredInit /\ RsiIdle /\ AppIdle

SpecPredict == InitPredict /\ [][PredNext]_vars

InitIndicators == RsiInit /\ PredIdle /\ AppIdle

IndicatorsNext == CalculateIndicators

SpecIndicators == InitIndicators /\ [][IndicatorsNext]_vars

InitApp == AppInit /\ PredIdle /\ RsiIdle

SpecApp == InitApp /\ [][AppNext]_vars

-----------------------------------------------------------------------------
\* Properties of predict_stock_price and prepare_data

\* A history as the data model describes it: present, every Close a real number.
ValidHistory(d) == ~d.isNone /\ \A i \in 1..Len(d.close) : d.close[i] # NaN

BusinessDay(d) == Weekday(d) \in 0..4

\* b is the earliest Monday-to-Friday day strictly after a.
NextBusinessDay(a, b) ==
    /\ b > a
    /\ BusinessDay(b)
    /\ \A e \in (a + 1)..(b - 1) : ~BusinessDay(e)

\* C1: for every valid history of 30 or more rows (exactly 30 included), the
\* call returns exactly 7 rows, with strictly increasing dates, none of them a
\* Saturday or a Sunday.
C1_SevenRowsFromThirty ==
    (pc = "done" /\ fault = "none" /\ ValidHistory(data) /\ Len(data.close) >= 30)
    => /\ Len(result.dates) = 7
       /\ Len(result.prices) = 7
       /\ \A i \in 1..6 : result.dates[i] < result.dates[i + 1]
       /\ \A i \in 1..7 : BusinessDay(result.dates[i])

\* C2: a history shorter than 30 rows (missing or empty included), and any
\* failure of feature building, fit or rollout, ends in the empty frame being
\* returned; no exception leaves the call.
C2_FailuresReturnEmpty ==
    (pc = "done" /\ (data.isNone \/ Len(data.close) < 30 \/ exc.kind # "none"))
    => (result = EmptyFrame /\ ~escaped)

C2_Witness ==
    /\ pc = "done"
    /\ ~data.isNone
    /\ Len(data.close) = 29
    /\ exc.kind = "ValueError"
    /\ result = EmptyFrame
    /\ ~escaped

\* C3: a non-empty forecast holds exactly the next 7 business days after the
\* last historical date: each date is the earliest Monday-to-Friday day strictly
\* after the one before it, the first after the last historical date.
C3_NextSevenBusinessDays ==
    (pc = "done" /\ Len(result.dates) > 0)
    => /\ Len(result.dates) = 7
       /\ NextBusinessDay(data.lastDate, result.dates[1])
       /\ \A i \in 1..6 : NextBusinessDay(result.dates[i], result.dates[i + 1])

C3_Witness ==
    /\ pc = "done"
    /\ Len(result.dates) = 7
    /\ Weekday(data.lastDate) = 4
    /\ result.dates[1] = data.lastDate + 3
    /\ result.dates[7] = data.lastDate + 11

\* A history of 30 rows whose Close column is null throughout.
NullHistory == [isNone |-> FALSE, close |-> [i \in 1..30 |-> NaN], lastDate |-> 1]

C7_WindowsAndTargets ==
    (pc # "start" /\ predictions = <<>> /\ ~data.isNone /\ Len(data.close) >= Lookback)
    => LET n == Len(data.close)
           cols == Features(data.close)
           scaled == ScaledRows(cols, FitScaler(cols))
       IN /\ ValidHistory(data) => exc.prefix = ""
          /\ exc.prefix = "" =>
                /\ Len(X) = n - Lookback
                /\ Len(y) = n - Lookback
                /\ \A k \in 0..(n - Lookback - 1) :
                      /\ Len(X[k + 1]) = Lookback
                      /\ \A r \in 1..Lookback : X[k + 1][r] = scaled[k + r]
                      /\ y[k + 1] = scaled[k + Lookback + 1][1]

C7_Witness ==
    /\ pc = "rollout"
    /\ predictions = <<>>
    /\ Len(data.close) = 32
    /\ Len(X) = 2
    /\ X[1] # X[2]

\* C8: each rollout iteration drops the oldest row of the window, moves every
\* other row one place earlier unchanged and appends a row holding the new
\* scaled prediction in the Close column and in both moving-average columns
\* (they are not recomputed); the training matrix X is never changed.
C8_RolloutShiftsWindow ==
    [][(pc = "rollout" /\ Len(predictions') = Len(predictions) + 1)
        => /\ Len(last_sequence') = Len(last_sequence)
           /\ \A r \in 1..(Len(last_sequence) - 1) :
                 last_sequence'[r] = last_sequence[r + 1]
           /\ last_sequence'[Len(last_sequence)] = <<scaled_pred', scaled_pred', scaled_pred'>>
           /\ Len(predictions') <= Horizon
           /\ X' = X]_vars

C8_Witness ==
    /\ pc = "rollout"
    /\ Len(predictions) = 7
    /\ Len(X) = 2
    /\ last_sequence[Lookback] = <<scaled_pred, scaled_pred, scaled_pred>>
    /\ last_sequence # Last(X)

RECURSIVE LowestClose(_, _, _)
LowestClose(c, i, m) ==
    IF i > Len(c) THEN m
    ELSE LowestClose(c, i + 1, IF c[i] # NaN /\ (m = NaN \/ c[i] < m) THEN c[i] ELSE m)

RECURSIVE HighestClose(_, _, _)
HighestClose(c, i, m) ==
    IF i > Len(c) THEN m
    ELSE HighestClose(c, i + 1, IF c[i] # NaN /\ (m = NaN \/ c[i] > m) THEN c[i] ELSE m)

\* The rows of the rollout window that the rollout wrote: the last k after k
\* iterations.  Before the first iteration every row is examined.
RowsToExamine ==
    IF predictions = <<>> THEN 1..Len(last_sequence)
    ELSE (Len(last_sequence) - Len(predictions) + 1)..Len(last_sequence)

\* C10: at every rollout step each recorded price lies between the minimum and
\* the maximum historical Close (inclusive); every scaled prediction and every
\* synthetic row of the rollout window (and every row of the window the
\* rollout starts from) is a scaled value in [0, 1].
C10_PricesWithinHistory ==
    LET lo == LowestClose(data.close, 1, NaN)
        hi == HighestClose(data.close, 1, NaN)
    IN /\ \A i \in 1..Len(predictions) :
             /\ lo # NaN
             /\ RLe(<<lo * Twentieths, 1>>, predictions[i])
             /\ RLe(predictions[i], <<hi * Twentieths, 1>>)
       /\ RLe(<<0, 1>>, scaled_pred) /\ RLe(scaled_pred, <<1, 1>>)
       /\ \A r \in RowsToExamine : \A c \in 1..3 :
             /\ RLe(<<0, 1>>, last_sequence[r][c])
             /\ RLe(last_sequence[r][c], <<1, 1>>)

C10_Witness ==
    /\ pc = "done"
    /\ Len(result.prices) = 7
    /\ result.prices[1] # result.prices[7]
    /\ result.prices[1][1] > 0

-----------------------------------------------------------------------------
\* Properties of calculate_technical_indicators

\* No Close of the latest 14 rows is below the one before it: the 14-day
\* average loss of the latest window is zero.
ZeroAverageLoss(c) ==
    /\ Len(c) >= 14
    /\ \A i \in (Len(c) - 13)..Len(c) : i > 1 => c[i] >= c[i - 1]

\* C4: whenever the 14-day average loss of the latest window is zero (a flat
\* Close series included), the RSI returned is 100, not a not-a-number.
C4_ZeroLossGivesHundred ==
    (ipc = "done" /\ ZeroAverageLoss(closes))
    => (rsi.k = "fin" /\ rsi.n = 100 * rsi.d)

-----------------------------------------------------------------------------
\* Properties of the fetch and cache layer

C9_RetryDiscipline ==
    /\ attempts <= 3
    /\ Len(sleeps) <= 2
    /\ \A i \in 1..Len(sleeps) : sleeps[i] = (IF i = 1 THEN 1 ELSE 2)
    /\ \A i \in 1..Len(fails) : fails[i].kind # "none"
    /\ apc = "fetching" =>
          /\ attempts < 3
          /\ Len(fails) = attempts
          /\ Len(sleeps) = attempts
    /\ served = "fetch" =>
          /\ ~hist.empty
          /\ attempts = Len(fails) + 1
          /\ Len(sleeps) = Len(fails)
          /\ raised.kind = "none"
    /\ served = "failed" =>
          /\ attempts = 3
          /\ Len(fails) = 3
          /\ sleeps = <<1, 2>>
          /\ raised = fails[3]

C9_Witness ==
    /\ served = "fetch"
    /\ apc = "idle"
    /\ attempts = 3
    /\ fails = <<EmptyHistoryError, TransportError>>
    /\ sleeps = <<1, 2>>
    /\ ~hist.empty

====
